---- MODULE Spec2Model ----
(***************************************************************************)
(* Model of the GitHub MCP bridge: main() bootstrap, the GitHubMCPServer   *)
(* action handlers (src/mcp_server.py) and the GitHubClient HTTP wrapper   *)
(* (src/github_client.py).                                                 *)
(***************************************************************************)
EXTENDS Integers, Sequences, FiniteSets, TLC

VARIABLES mainPc, token, clientKind, cfg, regNext, registered, frames, inflight

vars == <<mainPc, token, clientKind, cfg, regNext, registered, frames, inflight>>

(***************************************************************************)
(* Bounds                                                                  *)
(***************************************************************************)
MaxTasks == 2
MaxItems == 2

(***************************************************************************)
(* Python values.  Each type has its own field name, so values of          *)
(* different types are never equal.                                        *)
(***************************************************************************)
PyInt(n) == [int |-> n]
PyStr(s) == [str |-> s]
PyList(l) == [list |-> l]
PyDict(d) == [dict |-> d]
PyNone == [none |-> TRUE]
EmptyDict == PyDict(<<>>)

IsInt(v) == "int" \in DOMAIN v
IsStr(v) == "str" \in DOMAIN v
IsList(v) == "list" \in DOMAIN v
IsDict(v) == "dict" \in DOMAIN v

TypeName(v) ==
  IF IsInt(v) THEN "int"
  ELSE IF IsStr(v) THEN "str"
  ELSE IF IsList(v) THEN "list"
  ELSE IF IsDict(v) THEN "dict"
  ELSE "NoneType"

\* Python truthiness, as used by "if not query" / "if labels".
Truthy(v) ==
  IF IsInt(v) THEN v.int # 0
  ELSE IF IsStr(v) THEN v.str # ""
  ELSE IF IsList(v) THEN Len(v.list) > 0
  ELSE IF IsDict(v) THEN DOMAIN v.dict # {}
  ELSE FALSE

(***************************************************************************)
(* Outcome of evaluating a piece of Python: a value or a raised exception. *)
(***************************************************************************)
Return(v) == [ok |-> TRUE, val |-> v]
Raise(cls, msg) == [ok |-> FALSE, cls |-> cls, msg |-> msg]

\* Classes derived from Exception (caught by "except Exception").
ExceptionSubclasses ==
  {"ValueError", "TypeError", "AttributeError", "HTTPStatusError",
   "ConnectError", "JSONDecodeError", "RuntimeError"}

\* Fault variant: an except clause that names only the built-in errors.
IsExceptionMut(cls) == cls \in {"ValueError", "TypeError", "AttributeError"}
IsException(cls) == cls \in ExceptionSubclasses

\* mapping.get(key, default) on a plain mapping (action.params).
Get(m, k, default) == IF k \in DOMAIN m THEN m[k] ELSE default

\* obj.get(key, default): only dicts have the attribute.
NoAttr(v, attr) ==
  Raise("AttributeError",
        "'" \o TypeName(v) \o "' object has no attribute '" \o attr \o "'")

DictGet(v, k, default) ==
  IF IsDict(v) THEN Return(Get(v.dict, k, default)) ELSE NoAttr(v, "get")

\* The decimal literals that occur among the modelled inputs.
DecimalLiteral == [s \in {"7", "10"} |-> IF s = "7" THEN 7 ELSE 10]

\* int(x) as the handlers apply it to the limit parameter.
int(v) ==
  IF IsInt(v) THEN Return(v)
  ELSE IF IsStr(v) THEN
    IF v.str \in DOMAIN DecimalLiteral
      THEN Return(PyInt(DecimalLiteral[v.str]))
      ELSE Raise("ValueError",
                 "invalid literal for int() with base 10: '" \o v.str \o "'")
  ELSE Raise("TypeError",
             "int() argument must be a string, a bytes-like object or a real number, not '"
               \o TypeName(v) \o "'")

RECURSIVE SetToSeq(_)
SetToSeq(S) ==
  IF S = {} THEN <<>>
  ELSE LET x == CHOOSE y \in S : TRUE IN <<x>> \o SetToSeq(S \ {x})

\* "for x in v": the sequence of elements visited, or TypeError.
Iter(v) ==
  IF IsList(v) THEN Return(v.list)
  ELSE IF IsDict(v) THEN Return([i \in 1..Cardinality(DOMAIN v.dict) |->
                                   PyStr(SetToSeq(DOMAIN v.dict)[i])])
  ELSE Raise("TypeError", "'" \o TypeName(v) \o "' object is not iterable")

\* The loop "for x in xs: out.append(F(x))": the first exception aborts it.
FirstFailure(outs) ==
  CHOOSE i \in 1..Len(outs) :
    /\ ~outs[i].ok
    /\ \A j \in 1..(i - 1) : outs[j].ok

CollectOutcomes(outs) ==
  IF \E i \in 1..Len(outs) : ~outs[i].ok
    THEN outs[FirstFailure(outs)]
    ELSE Return(PyList([i \in 1..Len(outs) |-> outs[i].val]))

(***************************************************************************)
(* Handler results (mcp.server.model).                                     *)
(***************************************************************************)
ActionSuccessResult(r) == [result |-> r]
ActionErrorResult(e) == [error |-> e]
IsSuccess(r) == "result" \in DOMAIN r
IsError(r) == "error" \in DOMAIN r

\* Fault variant: the message carries the exception's class, not str(e).
TryMut(operation, outcome) ==
  IF outcome.ok THEN outcome
  ELSE IF IsException(outcome.cls)
    THEN Return(ActionErrorResult("Failed to " \o operation \o ": " \o outcome.cls))
    ELSE outcome

\* try: ... except Exception as e: return ActionErrorResult("Failed to <op>: <e>")
Try(operation, outcome) ==
  IF outcome.ok THEN outcome
  ELSE IF IsException(outcome.cls)
    THEN Return(ActionErrorResult("Failed to " \o operation \o ": " \o outcome.msg))
    ELSE outcome

\* A call the handler makes on self.github_client.
ClientCall(method, args) == [method |-> method, args |-> args]

\* What a handler run amounts to: the client calls it makes and how it ends.
Run(calls, operation, outcome) ==
  [calls |-> calls, ret |-> Try(operation, outcome)]

(***************************************************************************)
(* GitHubMCPServer action handlers.  Each takes the action's parameter     *)
(* mapping and `up`, the outcome of the awaited github_client call (used   *)
(* only when the handler gets that far).                                   *)
(***************************************************************************)
\* Fault variant: name read from "name" instead of "full_name".
format_repoMut(repo) ==
  IF ~IsDict(repo) THEN NoAttr(repo, "get")
  ELSE Return(PyDict([name        |-> Get(repo.dict, "name", PyNone),
                      description |-> Get(repo.dict, "description", PyNone),
                      stars       |-> Get(repo.dict, "stargazers_count", PyNone),
                      forks       |-> Get(repo.dict, "forks_count", PyNone),
                      language    |-> Get(repo.dict, "language", PyNone),
                      url         |-> Get(repo.dict, "html_url", PyNone),
                      created_at  |-> Get(repo.dict, "created_at", PyNone),
                      updated_at  |-> Get(repo.dict, "updated_at", PyNone)]))

format_repo(repo) ==
  IF ~IsDict(repo) THEN NoAttr(repo, "get")
  ELSE Return(PyDict([name        |-> Get(repo.dict, "full_name", PyNone),
                      description |-> Get(repo.dict, "description", PyNone),
                      stars       |-> Get(repo.dict, "stargazers_count", PyNone),
                      forks       |-> Get(repo.dict, "forks_count", PyNone),
                      language    |-> Get(repo.dict, "language", PyNone),
                      url         |-> Get(repo.dict, "html_url", PyNone),
                      created_at  |-> Get(repo.dict, "created_at", PyNone),
                      updated_at  |-> Get(repo.dict, "updated_at", PyNone)]))

format_issue(issue) ==
  IF ~IsDict(issue) THEN NoAttr(issue, "get")
  ELSE LET user  == Get(issue.dict, "user", EmptyDict)
           login == DictGet(user, "login", PyNone)
       IN IF ~login.ok THEN login
          ELSE Return(PyDict([number     |-> Get(issue.dict, "number", PyNone),
                              title      |-> Get(issue.dict, "title", PyNone),
                              state      |-> Get(issue.dict, "state", PyNone),
                              created_at |-> Get(issue.dict, "created_at", PyNone),
                              updated_at |-> Get(issue.dict, "updated_at", PyNone),
                              user       |-> login.val,
                              url        |-> Get(issue.dict, "html_url", PyNone),
                              comments   |-> Get(issue.dict, "comments", PyNone)]))

format_pr(pr) ==
  IF ~IsDict(pr) THEN NoAttr(pr, "get")
  ELSE LET user  == Get(pr.dict, "user", EmptyDict)
           login == DictGet(user, "login", PyNone)
       IN IF ~login.ok THEN login
          ELSE Return(PyDict([number     |-> Get(pr.dict, "number", PyNone),
                              title      |-> Get(pr.dict, "title", PyNone),
                              state      |-> Get(pr.dict, "state", PyNone),
                              created_at |-> Get(pr.dict, "created_at", PyNone),
                              updated_at |-> Get(pr.dict, "updated_at", PyNone),
                              user       |-> login.val,
                              url        |-> Get(pr.dict, "html_url", PyNone)]))

format_user_repo(repo) ==
  IF ~IsDict(repo) THEN NoAttr(repo, "get")
  ELSE Return(PyDict([name        |-> Get(repo.dict, "name", PyNone),
                      full_name   |-> Get(repo.dict, "full_name", PyNone),
                      description |-> Get(repo.dict, "description", PyNone),
                      language    |-> Get(repo.dict, "language", PyNone),
                      stars       |-> Get(repo.dict, "stargazers_count", PyNone),
                      forks       |-> Get(repo.dict, "forks_count", PyNone),
                      url         |-> Get(repo.dict, "html_url", PyNone),
                      created_at  |-> Get(repo.dict, "created_at", PyNone),
                      updated_at  |-> Get(repo.dict, "updated_at", PyNone)]))

\* The dict each formatting loop appends for one upstream element.
format_item(key, item) ==
  CASE key = "repositories"      -> format_repo(item)
    [] key = "issues"            -> format_issue(item)
    [] key = "pull_requests"     -> format_pr(item)
    [] key = "user_repositories" -> format_user_repo(item)

\* "formatted = []; for x in <awaited value>: formatted.append({...})".
format_loop(key, up) ==
  IF ~up.ok THEN up
  ELSE LET it == Iter(up.val) IN
    IF ~it.ok THEN it
    ELSE CollectOutcomes([i \in 1..Len(it.val) |-> format_item(key, it.val[i])])

\* The body after the loop: return ActionSuccessResult(result={key: formatted}).
success_of(key, formatted) ==
  IF ~formatted.ok THEN formatted
  ELSE Return(ActionSuccessResult(PyDict([k \in {key} |-> formatted.val])))

handle_search_repositories(params, up) ==
  LET query == Get(params, "query", PyStr(""))
      limit == int(Get(params, "limit", PyInt(5)))
      sort  == Get(params, "sort", PyStr("stars"))
      order == Get(params, "order", PyStr("desc"))
      op    == "search repositories"
  IN IF ~limit.ok THEN Run(<<>>, op, limit)
     ELSE IF ~Truthy(query)
       THEN Run(<<>>, op, Return(ActionErrorResult("Query parameter is required")))
     ELSE Run(<<ClientCall("search_repositories", <<query, limit.val, sort, order>>)>>,
              op, success_of("repositories", format_loop("repositories", up)))

\* Fault variant: the check rejects only when both owner and repo are missing.
handle_get_repositoryMut(params, up) ==
  LET owner == Get(params, "owner", PyNone)
      repo  == Get(params, "repo", PyNone)
      op    == "get repository"
  IN IF ~Truthy(owner) /\ ~Truthy(repo)
       THEN Run(<<>>, op,
                Return(ActionErrorResult("Owner and repo parameters are required")))
     ELSE Run(<<ClientCall("get_repository", <<owner, repo>>)>>,
              op, success_of("repository", up))

handle_get_repository(params, up) ==
  LET owner == Get(params, "owner", PyNone)
      repo  == Get(params, "repo", PyNone)
      op    == "get repository"
  IN IF ~Truthy(owner) \/ ~Truthy(repo)
       THEN Run(<<>>, op,
                Return(ActionErrorResult("Owner and repo parameters are required")))
     ELSE Run(<<ClientCall("get_repository", <<owner, repo>>)>>,
              op, success_of("repository", up))

handle_list_issues(params, up) ==
  LET owner == Get(params, "owner", PyNone)
      repo  == Get(params, "repo", PyNone)
      state == Get(params, "state", PyStr("open"))
      limit == int(Get(params, "limit", PyInt(10)))
      op    == "list issues"
  IN IF ~limit.ok THEN Run(<<>>, op, limit)
     ELSE IF ~Truthy(owner) \/ ~Truthy(repo)
       THEN Run(<<>>, op,
                Return(ActionErrorResult("Owner and repo parameters are required")))
     ELSE Run(<<ClientCall("get_issues", <<owner, repo, state, limit.val>>)>>,
              op, success_of("issues", format_loop("issues", up)))

format_created_issue(up) ==
  IF ~up.ok THEN up
  ELSE IF ~IsDict(up.val) THEN NoAttr(up.val, "get")
  ELSE Return(PyDict([number |-> Get(up.val.dict, "number", PyNone),
                      title  |-> Get(up.val.dict, "title", PyNone),
                      url    |-> Get(up.val.dict, "html_url", PyNone)]))

\* Fault variant: body and labels read without their defaults.
handle_create_issueMut(params, up) ==
  LET owner  == Get(params, "owner", PyNone)
      repo   == Get(params, "repo", PyNone)
      title  == Get(params, "title", PyNone)
      body   == Get(params, "body", PyNone)
      labels == Get(params, "labels", PyNone)
      op     == "create issue"
  IN IF ~Truthy(owner) \/ ~Truthy(repo) \/ ~Truthy(title)
       THEN Run(<<>>, op,
                Return(ActionErrorResult("Owner, repo, and title parameters are required")))
     ELSE Run(<<ClientCall("create_issue", <<owner, repo, title, body, labels>>)>>,
              op, success_of("issue", format_created_issue(up)))

handle_create_issue(params, up) ==
  LET owner  == Get(params, "owner", PyNone)
      repo   == Get(params, "repo", PyNone)
      title  == Get(params, "title", PyNone)
      body   == Get(params, "body", PyStr(""))
      labels == Get(params, "labels", PyList(<<>>))
      op     == "create issue"
  IN IF ~Truthy(owner) \/ ~Truthy(repo) \/ ~Truthy(title)
       THEN Run(<<>>, op,
                Return(ActionErrorResult("Owner, repo, and title parameters are required")))
     ELSE Run(<<ClientCall("create_issue", <<owner, repo, title, body, labels>>)>>,
              op, success_of("issue", format_created_issue(up)))

handle_list_pull_requests(params, up) ==
  LET owner == Get(params, "owner", PyNone)
      repo  == Get(params, "repo", PyNone)
      state == Get(params, "state", PyStr("open"))
      limit == int(Get(params, "limit", PyInt(10)))
      op    == "list pull requests"
  IN IF ~limit.ok THEN Run(<<>>, op, limit)
     ELSE IF ~Truthy(owner) \/ ~Truthy(repo)
       THEN Run(<<>>, op,
                Return(ActionErrorResult("Owner and repo parameters are required")))
     ELSE Run(<<ClientCall("get_pull_requests", <<owner, repo, state, limit.val>>)>>,
              op, success_of("pull_requests", format_loop("pull_requests", up)))

format_user(up) ==
  IF ~up.ok THEN up
  ELSE IF ~IsDict(up.val) THEN NoAttr(up.val, "get")
  ELSE Return(PyDict([login        |-> Get(up.val.dict, "login", PyNone),
                      name         |-> Get(up.val.dict, "name", PyNone),
                      bio          |-> Get(up.val.dict, "bio", PyNone),
                      company      |-> Get(up.val.dict, "company", PyNone),
                      location     |-> Get(up.val.dict, "location", PyNone),
                      public_repos |-> Get(up.val.dict, "public_repos", PyNone),
                      followers    |-> Get(up.val.dict, "followers", PyNone),
                      following    |-> Get(up.val.dict, "following", PyNone),
                      created_at   |-> Get(up.val.dict, "created_at", PyNone),
                      url          |-> Get(up.val.dict, "html_url", PyNone)]))

handle_get_user_profile(params, up) ==
  LET username == Get(params, "username", PyNone)
      op       == "get user profile"
  IN IF ~Truthy(username)
       THEN Run(<<>>, op, Return(ActionErrorResult("Username parameter is required")))
     ELSE Run(<<ClientCall("get_user", <<username>>)>>,
              op, success_of("user", format_user(up)))

handle_list_repos_for_user(params, up) ==
  LET username == Get(params, "username", PyNone)
      limit    == int(Get(params, "limit", PyInt(10)))
      sort     == Get(params, "sort", PyStr("updated"))
      op       == "list repositories for user"
  IN IF ~limit.ok THEN Run(<<>>, op, limit)
     ELSE IF ~Truthy(username)
       THEN Run(<<>>, op, Return(ActionErrorResult("Username parameter is required")))
     ELSE Run(<<ClientCall("get_user_repos", <<username, limit.val, sort>>)>>,
              op, success_of("repositories", format_loop("user_repositories", up)))

\* The seven registrations of _register_handlers, in order.
HandlerNames ==
  <<"search_repositories", "get_repository", "list_issues", "create_issue",
    "list_pull_requests", "get_user_profile", "list_repos_for_user">>

Actions == {HandlerNames[i] : i \in 1..Len(HandlerNames)}

\* The handler registered under each action name.
Handler(a, params, up) ==
  CASE a = "search_repositories" -> handle_search_repositories(params, up)
    [] a = "get_repository"      -> handle_get_repository(params, up)
    [] a = "list_issues"         -> handle_list_issues(params, up)
    [] a = "create_issue"        -> handle_create_issue(params, up)
    [] a = "list_pull_requests"  -> handle_list_pull_requests(params, up)
    [] a = "get_user_profile"    -> handle_get_user_profile(params, up)
    [] a = "list_repos_for_user" -> handle_list_repos_for_user(params, up)

(***************************************************************************)
(* GitHubClient (src/github_client.py).                                    *)
(***************************************************************************)
GitHubClient_init(api_token) ==
  [api_token |-> api_token,
   base_url  |-> "https://api.github.com",
   headers   |-> [Authorization |-> "token " \o api_token,
                  Accept        |-> "application/vnd.github.v3+json"]]

\* The methods the class defines for the handlers to call.
GitHubClientMethods ==
  {"search_repositories", "get_repository", "get_issues", "create_issue"}

\* str.upper() on the method names that occur.
MethodNames ==
  {"GET", "get", "POST", "Post", "PUT", "put", "DELETE", "delete",
   "PATCH", "patch", "HEAD", ""}

upper(m) ==
  CASE m \in {"GET", "get"}       -> "GET"
    [] m \in {"POST", "Post"}     -> "POST"
    [] m \in {"PUT", "put"}       -> "PUT"
    [] m \in {"DELETE", "delete"} -> "DELETE"
    [] m \in {"PATCH", "patch"}   -> "PATCH"
    [] OTHER                      -> m

\* httpx Response.raise_for_status(): every status outside 2xx raises.
is_success(status) == 200 <= status /\ status <= 299

raise_for_status(status) ==
  IF is_success(status) THEN Return(PyNone)
  ELSE Raise("HTTPStatusError", "status " \o ToString(status))

\* Response bodies that occur, and response.json() on them.
JsonDecodable ==
  {"{}", "[]", "null",
   "{\"total_count\":1,\"items\":[{\"id\":2,\"full_name\":\"a/y\",\"description\":null}]}",
   "[{\"number\":3,\"user\":null}]",
   "{\"number\":7,\"title\":\"t\",\"html_url\":\"https://github.com/a/b/issues/7\"}"}

BodyTexts == JsonDecodable \cup {"", "<html>"}

RepoSparse ==
  PyDict([id |-> PyInt(2), full_name |-> PyStr("a/y"), description |-> PyNone])

IssueNullUser == PyDict([number |-> PyInt(3), user |-> PyNone])

CreatedIssue ==
  PyDict([number   |-> PyInt(7),
          title    |-> PyStr("t"),
          html_url |-> PyStr("https://github.com/a/b/issues/7")])

\* Records and bodies that carry the number of the call they answer.
Tags == 1..MaxTasks

TaggedRepo(n) == PyDict([id |-> PyInt(n), full_name |-> PyStr("a/b")])
TaggedIssue(n) == PyDict([number |-> PyInt(n), title |-> PyStr("t")])
TaggedRepoBody(n) == "{\"id\":" \o ToString(n) \o ",\"full_name\":\"a/b\"}"
TaggedIssuesBody(n) == "[{\"number\":" \o ToString(n) \o ",\"title\":\"t\"}]"

json(body) ==
  CASE body = "{}"   -> Return(EmptyDict)
    [] body = "[]"   -> Return(PyList(<<>>))
    [] body = "null" -> Return(PyNone)
    [] body = "{\"total_count\":1,\"items\":[{\"id\":2,\"full_name\":\"a/y\",\"description\":null}]}"
         -> Return(PyDict([total_count |-> PyInt(1), items |-> PyList(<<RepoSparse>>)]))
    [] body = "[{\"number\":3,\"user\":null}]"
         -> Return(PyList(<<IssueNullUser>>))
    [] body = "{\"number\":7,\"title\":\"t\",\"html_url\":\"https://github.com/a/b/issues/7\"}"
         -> Return(CreatedIssue)
    [] body \in {TaggedRepoBody(n) : n \in Tags}
         -> Return(TaggedRepo(CHOOSE n \in Tags : body = TaggedRepoBody(n)))
    [] body \in {TaggedIssuesBody(n) : n \in Tags}
         -> Return(PyList(<<TaggedIssue(CHOOSE n \in Tags : body = TaggedIssuesBody(n))>>))
    [] OTHER -> Raise("JSONDecodeError", "Expecting value: line 1 column 1 (char 0)")

\* What the HTTP exchange yields: a response, or a transport failure raised
\* by client.get/post/put/delete.
HttpResponse(status, body) == Return([status |-> status, body |-> body])
TransportFailure == Raise("ConnectError", "All connection attempts failed")

HttpRequest(verb, url, headers, params, data) ==
  [verb |-> verb, url |-> url, headers |-> headers, params |-> params, json |-> data]

\* _make_request: the requests it sends, whether response.json() ran, and
\* how it ends, given the outcome `http` of the exchange.
MakeRequestResult(requests, parsed, out) ==
  [requests |-> requests, parsed |-> parsed, out |-> out]

SupportedVerbs == {"GET", "POST", "PUT", "DELETE"}

\* Fault variant: no special case for status 204.
make_requestMut(self, method, endpoint, params, data, http) ==
  LET url  == self.base_url \o endpoint
      verb == upper(method)
      req  == HttpRequest(verb, url, self.headers, params,
                          IF verb \in {"POST", "PUT"} THEN data ELSE PyNone)
  IN IF verb \notin SupportedVerbs
       THEN MakeRequestResult(<<>>, FALSE,
              Raise("ValueError", "Unsupported HTTP method: " \o method))
     ELSE IF ~http.ok THEN MakeRequestResult(<<req>>, FALSE, http)
     ELSE IF ~raise_for_status(http.val.status).ok
       THEN MakeRequestResult(<<req>>, FALSE, raise_for_status(http.val.status))
     ELSE MakeRequestResult(<<req>>, TRUE, json(http.val.body))

make_request(self, method, endpoint, params, data, http) ==
  LET url  == self.base_url \o endpoint
      verb == upper(method)
      req  == HttpRequest(verb, url, self.headers, params,
                          IF verb \in {"POST", "PUT"} THEN data ELSE PyNone)
  IN IF verb \notin SupportedVerbs
       THEN MakeRequestResult(<<>>, FALSE,
              Raise("ValueError", "Unsupported HTTP method: " \o method))
     ELSE IF ~http.ok THEN MakeRequestResult(<<req>>, FALSE, http)
     ELSE IF ~raise_for_status(http.val.status).ok
       THEN MakeRequestResult(<<req>>, FALSE, raise_for_status(http.val.status))
     ELSE IF http.val.status = 204
       THEN MakeRequestResult(<<req>>, FALSE, Return(EmptyDict))
     ELSE MakeRequestResult(<<req>>, TRUE, json(http.val.body))

\* f"{value}" for the values interpolated into endpoints.
fstr(v) ==
  IF IsStr(v) THEN v.str
  ELSE IF IsInt(v) THEN ToString(v.int)
  ELSE TypeName(v)

GitHubClient_search_repositories(self, args, http) ==
  LET params   == PyDict([q |-> args[1], per_page |-> args[2],
                          sort |-> args[3], order |-> args[4]])
      response == make_request(self, "GET", "/search/repositories", params, PyNone, http)
  IN IF ~response.out.ok THEN response
     ELSE [response EXCEPT !.out = DictGet(response.out.val, "items", PyList(<<>>))]

GitHubClient_get_repository(self, args, http) ==
  make_request(self, "GET", "/repos/" \o fstr(args[1]) \o "/" \o fstr(args[2]),
               PyNone, PyNone, http)

GitHubClient_get_issues(self, args, http) ==
  LET params == PyDict([state |-> args[3], per_page |-> args[4]])
  IN make_request(self, "GET",
                  "/repos/" \o fstr(args[1]) \o "/" \o fstr(args[2]) \o "/issues",
                  params, PyNone, http)

GitHubClient_create_issue(self, args, http) ==
  LET base == [title |-> args[3], body |-> args[4]]
      data == IF Truthy(args[5])
                THEN PyDict([title |-> args[3], body |-> args[4], labels |-> args[5]])
                ELSE PyDict(base)
  IN make_request(self, "POST",
                  "/repos/" \o fstr(args[1]) \o "/" \o fstr(args[2]) \o "/issues",
                  PyNone, data, http)

\* self.github_client.<method>(*args) on the shipped client.
GitHubClientCall(self, call, http) ==
  CASE call.method = "search_repositories" -> GitHubClient_search_repositories(self, call.args, http)
    [] call.method = "get_repository"      -> GitHubClient_get_repository(self, call.args, http)
    [] call.method = "get_issues"          -> GitHubClient_get_issues(self, call.args, http)
    [] call.method = "create_issue"        -> GitHubClient_create_issue(self, call.args, http)

\* Attribute lookup of a method the class does not define.
MissingMethod(call) ==
  Raise("AttributeError",
        "'GitHubClient' object has no attribute '" \o call.method \o "'")

(***************************************************************************)
(* Inputs: the parameter mappings of incoming actions and what the         *)
(* upstream side may answer.                                               *)
(***************************************************************************)
\* All mappings defined on a subset of `keys`, each key k taking a value of V[k].
PartialMaps(keys, V) ==
  UNION {{m \in [S -> UNION {V[k] : k \in S}] : \A k \in S : m[k] \in V[k]} :
           S \in SUBSET keys}

LimitValues == {PyInt(3), PyStr("7"), PyStr("abc"), PyNone}

ParamValues ==
  [query    |-> {PyStr(""), PyStr("mcp")},
   owner    |-> {PyStr(""), PyStr("a")},
   repo     |-> {PyStr("b")},
   title    |-> {PyStr("t")},
   username |-> {PyStr(""), PyStr("octocat")},
   limit    |-> LimitValues,
   state    |-> {PyStr("closed")},
   sort     |-> {PyStr("forks")},
   order    |-> {PyStr("asc")},
   body     |-> {PyStr("text")},
   labels   |-> {PyList(<<PyStr("bug")>>)}]

\* The parameters each handler reads.
ParamKeys(a) ==
  CASE a = "search_repositories" -> {"query", "limit", "sort", "order"}
    [] a = "get_repository"      -> {"owner", "repo"}
    [] a = "list_issues"         -> {"owner", "repo", "state", "limit"}
    [] a = "create_issue"        -> {"owner", "repo", "title", "body", "labels"}
    [] a = "list_pull_requests"  -> {"owner", "repo", "state", "limit"}
    [] a = "get_user_profile"    -> {"username"}
    [] a = "list_repos_for_user" -> {"username", "limit", "sort"}

\* The parameters each handler checks before calling the client.
RequiredKeys(a) ==
  CASE a = "search_repositories" -> {"query"}
    [] a = "get_repository"      -> {"owner", "repo"}
    [] a = "list_issues"         -> {"owner", "repo"}
    [] a = "create_issue"        -> {"owner", "repo", "title"}
    [] a = "list_pull_requests"  -> {"owner", "repo"}
    [] a = "get_user_profile"    -> {"username"}
    [] a = "list_repos_for_user" -> {"username"}

ParamSpace(a) == PartialMaps(ParamKeys(a), ParamValues)

\* Raw upstream records.
RepoFull ==
  PyDict([id               |-> PyInt(1),
          name             |-> PyStr("x"),
          full_name        |-> PyStr("a/x"),
          description      |-> PyStr("d"),
          stargazers_count |-> PyInt(5),
          forks_count      |-> PyInt(1),
          language         |-> PyStr("Python"),
          html_url         |-> PyStr("https://github.com/a/x"),
          created_at       |-> PyStr("2024-01-01"),
          updated_at       |-> PyStr("2024-02-01")])

IssueFull ==
  PyDict([number     |-> PyInt(1),
          title      |-> PyStr("t1"),
          state      |-> PyStr("open"),
          created_at |-> PyStr("2024-01-01"),
          updated_at |-> PyStr("2024-02-01"),
          user       |-> PyDict([login |-> PyStr("octocat"), id |-> PyInt(9)]),
          html_url   |-> PyStr("https://github.com/a/b/issues/1"),
          comments   |-> PyInt(0),
          body       |-> PyStr("text")])

IssueNoUser == PyDict([number |-> PyInt(2), title |-> PyStr("t2")])
IssueNoLogin == PyDict([number |-> PyInt(4), user |-> EmptyDict])

UserFull ==
  PyDict([login |-> PyStr("octocat"), name |-> PyStr("O"), id |-> PyInt(9),
          public_repos |-> PyInt(2), html_url |-> PyStr("https://github.com/octocat")])

RawRepos == {RepoFull, RepoSparse, EmptyDict}
RawIssues == {IssueFull, IssueNoUser, IssueNullUser, IssueNoLogin}

\* Lists of at most MaxItems elements of S.
ListsOf(S) == {PyList(q) : q \in UNION {[1..n -> S] : n \in 0..MaxItems}}

\* What a stand-in upstream client may return from a method.
ClientValues(method) ==
  CASE method \in {"search_repositories", "get_user_repos"}
         -> ListsOf(RawRepos) \cup {PyNone, RepoSparse}
    [] method \in {"get_issues", "get_pull_requests"}
         -> ListsOf(RawIssues) \cup {PyNone, IssueNoUser}
    [] method = "get_repository" -> {RepoFull, RepoSparse, PyNone}
    [] method = "create_issue"   -> {CreatedIssue, EmptyDict, PyList(<<>>)}
    [] method = "get_user"       -> {UserFull, EmptyDict, PyNone}

\* What it may raise instead: a status failure, a transport failure, anything else.
ClientFailures ==
  {Raise("HTTPStatusError", "status 404"), TransportFailure, Raise("RuntimeError", "boom")}

ClientOutcomes(method) == {Return(v) : v \in ClientValues(method)} \cup ClientFailures

Statuses == {200, 201, 204, 302, 404, 500}

HttpOutcomes ==
  {HttpResponse(st, b) : st \in Statuses, b \in BodyTexts} \cup {TransportFailure}

(***************************************************************************)
(* State machine.                                                          *)
(*   mainPc      where main() / the construction of the server stands      *)
(*   token       GITHUB_API_TOKEN                                          *)
(*   clientKind  which object was passed as github_client                  *)
(*   cfg         the GitHubClient's api_token, base_url and headers        *)
(*   regNext     the next register_action_handler call of                  *)
(*               _register_handlers, registered: the names bound so far    *)
(*   frames      one coroutine frame per handler invocation slot           *)
(*   inflight    awaited upstream calls / HTTP exchanges not yet answered  *)
(***************************************************************************)
Tasks == 1..MaxTasks

NoCfg == [api_token |-> "", base_url |-> "", headers |-> <<>>]
NoOutcome == [none |-> TRUE]
NoUp == [from |-> 0, out |-> NoOutcome]

IdleFrame ==
  [pc |-> "idle", action |-> "", params |-> <<>>, calls |-> <<>>,
   sent |-> <<>>, parsed |-> FALSE, up |-> NoUp, ret |-> NoOutcome]

Frame(pc, a, params, calls, sent, parsed, up, ret) ==
  [pc |-> pc, action |-> a, params |-> params, calls |-> calls,
   sent |-> sent, parsed |-> parsed, up |-> up, ret |-> ret]

AllIdle == \A t \in Tasks : frames[t].pc = "idle"

Init ==
  /\ mainPc = "main"
  /\ token \in {"", "ghp_x"}
  /\ clientKind = "none"
  /\ cfg = NoCfg
  /\ regNext = 1
  /\ registered = {}
  /\ frames = [t \in Tasks |-> IdleFrame]
  /\ inflight = {}

\* main(): "if not GITHUB_API_TOKEN: ... return".
MainNoToken ==
  /\ mainPc = "main"
  /\ token = ""
  /\ mainPc' = "exited"
  /\ UNCHANGED <<token, clientKind, cfg, regNext, registered, frames, inflight>>

\* main(): GitHubClient(api_token=...), then GitHubMCPServer(github_client)
\* up to the call of _register_handlers.
MainCreateClient ==
  /\ mainPc = "main"
  /\ token # ""
  /\ cfg' = GitHubClient_init(token)
  /\ clientKind' = "GitHubClient"
  /\ mainPc' = "registering"
  /\ UNCHANGED <<token, regNext, registered, frames, inflight>>

\* GitHubMCPServer(github_client) built around a stand-in client.
CreateWithStandIn ==
  /\ mainPc = "main"
  /\ clientKind' = "StandIn"
  /\ mainPc' = "registering"
  /\ UNCHANGED <<token, cfg, regNext, registered, frames, inflight>>

\* One register_action_handler call that returns; after the seventh,
\* _register_handlers and __init__ return.
Register ==
  /\ mainPc = "registering"
  /\ regNext <= Len(HandlerNames)
  /\ registered' = registered \cup {HandlerNames[regNext]}
  /\ regNext' = regNext + 1
  /\ mainPc' = IF regNext = Len(HandlerNames) THEN "constructed" ELSE "registering"
  /\ UNCHANGED <<token, clientKind, cfg, frames, inflight>>

\* Fault variant: a raising registration is logged and skipped.
RegisterRaisesMut ==
  /\ mainPc = "registering"
  /\ regNext <= Len(HandlerNames)
  /\ regNext' = regNext + 1
  /\ mainPc' = IF regNext = Len(HandlerNames) THEN "constructed" ELSE "registering"
  /\ UNCHANGED <<token, clientKind, cfg, registered, frames, inflight>>

\* A register_action_handler call that raises: nothing catches it before
\* main()'s "except Exception", so server.start is skipped.
RegisterRaises ==
  /\ mainPc = "registering"
  /\ regNext <= Len(HandlerNames)
  /\ mainPc' = "failed"
  /\ UNCHANGED <<token, clientKind, cfg, regNext, registered, frames, inflight>>

\* await server.start(host, port) returning: the server serves.
Start ==
  /\ mainPc = "constructed"
  /\ mainPc' = "serving"
  /\ UNCHANGED <<token, clientKind, cfg, regNext, registered, frames, inflight>>

StartRaises ==
  /\ mainPc = "constructed"
  /\ mainPc' = "failed"
  /\ UNCHANGED <<token, clientKind, cfg, regNext, registered, frames, inflight>>

\* Fault variant: the answer goes to whichever coroutine is suspended.
WaiterMut(c) == CHOOSE t \in Tasks : frames[t].pc = "awaiting"
\* The coroutine a pending await resumes: the one that issued it.
Waiter(c) == c.task

Pending(t, kind) == [task |-> t, kind |-> kind]

\* The outcome a handler is evaluated with before its await has an answer.
Unanswered == Return(PyNone)

\* The runtime invokes the handler registered for action a with parameters
\* p; the coroutine runs up to its first suspension or to its return.
Dispatch(t, a, p) ==
  /\ mainPc = "serving"
  /\ a \in registered
  /\ frames[t].pc = "idle"
  /\ LET r    == Handler(a, p, Unanswered)
         call == r.calls[1]
     IN IF r.calls = <<>>
          THEN /\ frames' = [frames EXCEPT ![t] =
                    Frame("done", a, p, <<>>, <<>>, FALSE, NoUp, r.ret)]
               /\ inflight' = inflight
        ELSE IF clientKind = "StandIn"
          THEN /\ frames' = [frames EXCEPT ![t] =
                    Frame("awaiting", a, p, r.calls, <<>>, FALSE, NoUp, NoOutcome)]
               /\ inflight' = inflight \cup {Pending(t, "client")}
        ELSE IF call.method \notin GitHubClientMethods
          THEN /\ frames' = [frames EXCEPT ![t] =
                    Frame("done", a, p, <<>>, <<>>, FALSE, NoUp,
                          Handler(a, p, MissingMethod(call)).ret)]
               /\ inflight' = inflight
        ELSE /\ frames' = [frames EXCEPT ![t] =
                  Frame("awaiting", a, p, r.calls,
                        GitHubClientCall(cfg, call, TransportFailure).requests,
                        FALSE, NoUp, NoOutcome)]
             /\ inflight' = inflight \cup {Pending(t, "http")}
  /\ UNCHANGED <<mainPc, token, clientKind, cfg, regNext, registered>>

\* The stand-in client's method returns or raises; the handler runs on to
\* its return.
ClientAnswers(c, out) ==
  /\ c \in inflight
  /\ c.kind = "client"
  /\ frames[Waiter(c)].pc = "awaiting"
  /\ LET t == Waiter(c)
         f == frames[t]
     IN frames' = [frames EXCEPT ![t] =
          Frame("done", f.action, f.params, f.calls, f.sent, FALSE,
                [from |-> c.task, out |-> out],
                Handler(f.action, f.params, out).ret)]
  /\ inflight' = inflight \ {c}
  /\ UNCHANGED <<mainPc, token, clientKind, cfg, regNext, registered>>

\* The HTTP exchange of a GitHubClient call ends (response or transport
\* failure); _make_request, the client method and the handler run on.
HttpAnswers(c, http) ==
  /\ c \in inflight
  /\ c.kind = "http"
  /\ frames[Waiter(c)].pc = "awaiting"
  /\ LET t == Waiter(c)
         f == frames[t]
         m == IF f.action = "_make_request"
                THEN make_request(cfg, f.params["method"].str, f.params["endpoint"].str,
                                  PyNone, PyNone, http)
                ELSE GitHubClientCall(cfg, f.calls[1], http)
     IN frames' = [frames EXCEPT ![t] =
          Frame("done", f.action, f.params, f.calls, f.sent, m.parsed,
                [from |-> c.task, out |-> http],
                IF f.action = "_make_request"
                  THEN m.out
                  ELSE Handler(f.action, f.params, m.out).ret)]
  /\ inflight' = inflight \ {c}
  /\ UNCHANGED <<mainPc, token, clientKind, cfg, regNext, registered>>

\* A direct call of GitHubClient._make_request(method, endpoint), run up to
\* the HTTP exchange or to the ValueError.
CallMakeRequest(t, method, endpoint) ==
  /\ mainPc = "client"
  /\ frames[t].pc = "idle"
  /\ LET m == make_request(cfg, method, endpoint, PyNone, PyNone, TransportFailure)
         p == [method |-> PyStr(method), endpoint |-> PyStr(endpoint)]
     IN IF m.requests = <<>>
          THEN /\ frames' = [frames EXCEPT ![t] =
                    Frame("done", "_make_request", p, <<>>, <<>>, FALSE, NoUp, m.out)]
               /\ inflight' = inflight
          ELSE /\ frames' = [frames EXCEPT ![t] =
                    Frame("awaiting", "_make_request", p, <<>>, m.requests, FALSE,
                          NoUp, NoOutcome)]
               /\ inflight' = inflight \cup {Pending(t, "http")}
  /\ UNCHANGED <<mainPc, token, clientKind, cfg, regNext, registered>>

\* The runtime hands the handler's return value to the caller; the
\* coroutine is gone.
Deliver(t) ==
  /\ frames[t].pc = "done"
  /\ frames' = [frames EXCEPT ![t] = IdleFrame]
  /\ UNCHANGED <<mainPc, token, clientKind, cfg, regNext, registered, inflight>>

\* One action handled at a time, over the full input space.
Next ==
  \/ MainNoToken
  \/ MainCreateClient
  \/ CreateWithStandIn
  \/ Register
  \/ RegisterRaises
  \/ Start
  \/ StartRaises
  \/ \E t \in Tasks, a \in Actions : \E p \in ParamSpace(a) :
       AllIdle /\ Dispatch(t, a, p)
  \/ \E c \in inflight : \E out \in ClientOutcomes(frames[c.task].calls[1].method) :
       ClientAnswers(c, out)
  \/ \E c \in inflight : \E http \in HttpOutcomes : HttpAnswers(c, http)
  \/ \E t \in Tasks : Deliver(t)

Spec == Init /\ [][Next]_vars

\* Concurrent handling: up to MaxTasks invocations in flight at once, each
\* upstream answer carrying the number of the call it answers.
ConcInputs(a) ==
  CASE a = "get_repository"
         -> {[owner |-> PyStr("a"), repo |-> PyStr("b")],
             [owner |-> PyStr("c"), repo |-> PyStr("b")],
             [owner |-> PyStr("a")]}
    [] a = "list_issues" -> {[owner |-> PyStr("a"), repo |-> PyStr("b")]}
    [] OTHER -> {}

ConcClientOutcomes(c) ==
  {IF frames[c.task].calls[1].method = "get_repository"
     THEN Return(TaggedRepo(c.task))
     ELSE Return(PyList(<<TaggedIssue(c.task)>>)),
   Raise("RuntimeError", "boom " \o ToString(c.task))}

ConcHttpOutcomes(c) ==
  {IF frames[c.task].calls[1].method = "get_repository"
     THEN HttpResponse(200, TaggedRepoBody(c.task))
     ELSE HttpResponse(200, TaggedIssuesBody(c.task)),
   HttpResponse(404, ""),
   TransportFailure}

NextConc ==
  \/ MainNoToken
  \/ MainCreateClient
  \/ CreateWithStandIn
  \/ Register
  \/ RegisterRaises
  \/ Start
  \/ StartRaises
  \/ \E t \in Tasks, a \in Actions : \E p \in ConcInputs(a) : Dispatch(t, a, p)
  \/ \E c \in inflight : \E out \in ConcClientOutcomes(c) : ClientAnswers(c, out)
  \/ \E c \in inflight : \E http \in ConcHttpOutcomes(c) : HttpAnswers(c, http)
  \/ \E t \in Tasks : Deliver(t)

SpecConc == Init /\ [][NextConc]_vars

\* GitHubClient._make_request called directly, one call at a time, with
\* every method name and every answer of the HTTP exchange.
InitReq ==
  /\ mainPc = "client"
  /\ token = "ghp_x"
  /\ clientKind = "GitHubClient"
  /\ cfg = GitHubClient_init(token)
  /\ regNext = 1
  /\ registered = {}
  /\ frames = [t \in Tasks |-> IdleFrame]
  /\ inflight = {}

Endpoints == {"/repos/a/b", "/user"}

NextReq ==
  \/ \E t \in Tasks, method \in MethodNames, endpoint \in Endpoints :
       AllIdle /\ CallMakeRequest(t, method, endpoint)
  \/ \E c \in inflight : \E http \in HttpOutcomes : HttpAnswers(c, http)
  \/ \E t \in Tasks : Deliver(t)

SpecReq == InitReq /\ [][NextReq]_vars

(***************************************************************************)
(* Properties.                                                             *)
(***************************************************************************)
\* A required parameter of action a is missing from p, or empty.
MissingRequired(a, p) ==
  \E k \in RequiredKeys(a) : k \notin DOMAIN p \/ ~Truthy(p[k])

Invoked(t) == frames[t].pc # "idle"
Finished(t) == frames[t].pc = "done"

\* How the github_client call of a finished invocation ended.
ClientOutcomeOf(f) ==
  IF clientKind = "StandIn" THEN f.up.out
  ELSE GitHubClientCall(cfg, f.calls[1], f.up.out).out

Answered(t) == Finished(t) /\ frames[t].calls # <<>>

\* C1: whenever a required parameter of the action is missing or empty, the
\* handler has returned an error result and has called no method of the
\* upstream client (and sent no HTTP request).
Thm_C1 ==
  \A t \in Tasks :
    (Invoked(t) /\ MissingRequired(frames[t].action, frames[t].params)) =>
      /\ Finished(t)
      /\ frames[t].ret.ok
      /\ IsError(frames[t].ret.val)
      /\ frames[t].calls = <<>>
      /\ frames[t].sent = <<>>
      /\ \A c \in inflight : c.task # t

Wit_C1 ==
  \E t \in Tasks :
    /\ Finished(t)
    /\ frames[t].action = "create_issue"
    /\ DOMAIN frames[t].params = {"owner", "repo", "body"}
    /\ IsError(frames[t].ret.val)

\* C2: every handler invocation ends by returning exactly one of a success
\* result and an error result, whatever the parameters and however the
\* upstream call ended; no exception leaves the handler, and an invocation
\* that has not returned is suspended on its one pending upstream call.
Thm_C2 ==
  \A t \in Tasks :
    /\ frames[t].pc \in {"idle", "awaiting", "done"}
    /\ frames[t].pc = "awaiting" => \E c \in inflight : c.task = t
    /\ Finished(t) =>
         /\ frames[t].ret.ok
         /\ IsSuccess(frames[t].ret.val) # IsError(frames[t].ret.val)

Wit_C2 ==
  \E t \in Tasks :
    /\ Answered(t)
    /\ ~ClientOutcomeOf(frames[t]).ok
    /\ ClientOutcomeOf(frames[t]).cls = "HTTPStatusError"
    /\ IsError(frames[t].ret.val)

\* The message each handler returns when validation fails.
ValidationError(a) ==
  CASE a = "search_repositories" -> "Query parameter is required"
    [] a \in {"get_repository", "list_issues", "list_pull_requests"}
         -> "Owner and repo parameters are required"
    [] a = "create_issue" -> "Owner, repo, and title parameters are required"
    [] a \in {"get_user_profile", "list_repos_for_user"}
         -> "Username parameter is required"

\* C3: whenever a required parameter is missing, the returned error is the
\* action's validation error, whatever the optional parameters are.
Cex_C3 ==
  \A t \in Tasks :
    (Invoked(t) /\ MissingRequired(frames[t].action, frames[t].params)) =>
      frames[t].ret = Return(ActionErrorResult(ValidationError(frames[t].action)))

\* The fixed phrase of each action's failure message.
Phrase(a) ==
  CASE a = "search_repositories" -> "search repositories"
    [] a = "get_repository"      -> "get repository"
    [] a = "list_issues"         -> "list issues"
    [] a = "create_issue"        -> "create issue"
    [] a = "list_pull_requests"  -> "list pull requests"
    [] a = "get_user_profile"    -> "get user profile"
    [] a = "list_repos_for_user" -> "list repositories for user"

\* C4: when the upstream client call of an invocation raised with cause
\* text c, the handler returned the error "Failed to <operation>: c".
Thm_C4 ==
  \A t \in Tasks :
    (Answered(t) /\ ~ClientOutcomeOf(frames[t]).ok) =>
      frames[t].ret =
        Return(ActionErrorResult("Failed to " \o Phrase(frames[t].action) \o ": "
                                   \o ClientOutcomeOf(frames[t]).msg))

Wit_C4 ==
  \E t \in Tasks :
    /\ Answered(t)
    /\ frames[t].action = "list_repos_for_user"
    /\ ClientOutcomeOf(frames[t]) = TransportFailure
    /\ frames[t].ret.val =
         ActionErrorResult("Failed to list repositories for user: All connection attempts failed")

\* The seven actions of the contract table.
SevenActions ==
  {"search_repositories", "get_repository", "list_issues", "create_issue",
   "list_pull_requests", "get_user_profile", "list_repos_for_user"}

\* C5: the server serves only with all seven actions registered: start is
\* reached only from a completed construction, and once a registration (or
\* start) has raised, the server never serves.
Thm_C5 ==
  /\ [](mainPc \in {"constructed", "serving"} => registered = SevenActions)
  /\ [][mainPc' = "serving" => mainPc \in {"constructed", "serving"}]_vars
  /\ [][mainPc = "failed" => mainPc' = "failed"]_vars
  /\ [](~AllIdle => mainPc = "serving")

Wit_C5 == mainPc = "serving" /\ registered = SevenActions /\ ~AllIdle

\* An upstream record without a user login.
NoLogin(item) ==
  \/ "user" \notin DOMAIN item.dict
  \/ ~IsDict(item.dict["user"])
  \/ "login" \notin DOMAIN item.dict["user"].dict

IsRecordList(out) ==
  /\ out.ok
  /\ IsList(out.val)
  /\ \A i \in 1..Len(out.val.list) : IsDict(out.val.list[i])

ResultKey(a) ==
  CASE a = "list_issues" -> "issues"
    [] a = "list_pull_requests" -> "pull_requests"

\* C6: list_issues and list_pull_requests return a success result whenever
\* the upstream returned a list of records, and a record without a user
\* login (user missing, or present without a value) gets user = null.
Cex_C6 ==
  \A t \in Tasks :
    (/\ Answered(t)
     /\ frames[t].action \in {"list_issues", "list_pull_requests"}
     /\ IsRecordList(ClientOutcomeOf(frames[t]))) =>
      LET items == ClientOutcomeOf(frames[t]).val.list
          key   == ResultKey(frames[t].action)
      IN /\ frames[t].ret.ok
         /\ IsSuccess(frames[t].ret.val)
         /\ Len(frames[t].ret.val.result.dict[key].list) = Len(items)
         /\ \A i \in 1..Len(items) :
              NoLogin(items[i]) =>
                frames[t].ret.val.result.dict[key].list[i].dict["user"] = PyNone

\* Where each of the eight result fields of a repository comes from.
RepoFieldSource ==
  [name        |-> "full_name",
   description |-> "description",
   stars       |-> "stargazers_count",
   forks       |-> "forks_count",
   language    |-> "language",
   url         |-> "html_url",
   created_at  |-> "created_at",
   updated_at  |-> "updated_at"]

\* C7: search_repositories over n upstream records returns n entries in
\* the same order, each with exactly the eight documented keys, a key being
\* null when the record lacks the value.
Thm_C7 ==
  \A t \in Tasks :
    (/\ Answered(t)
     /\ frames[t].action = "search_repositories"
     /\ IsRecordList(ClientOutcomeOf(frames[t]))) =>
      LET items == ClientOutcomeOf(frames[t]).val.list IN
      /\ frames[t].ret.ok
      /\ IsSuccess(frames[t].ret.val)
      /\ DOMAIN frames[t].ret.val.result.dict = {"repositories"}
      /\ LET out == frames[t].ret.val.result.dict["repositories"].list IN
         /\ Len(out) = Len(items)
         /\ \A i \in 1..Len(items) :
              /\ DOMAIN out[i].dict = DOMAIN RepoFieldSource
              /\ \A k \in DOMAIN RepoFieldSource :
                   out[i].dict[k] =
                     IF RepoFieldSource[k] \in DOMAIN items[i].dict
                       THEN items[i].dict[RepoFieldSource[k]]
                       ELSE PyNone

Wit_C7 ==
  \E t \in Tasks :
    /\ Answered(t)
    /\ frames[t].action = "search_repositories"
    /\ ClientOutcomeOf(frames[t]) = Return(PyList(<<RepoSparse, RepoFull>>))
    /\ IsSuccess(frames[t].ret.val)

\* C8: create_issue with owner, repo and title present calls the client's
\* create_issue exactly once, with body "" and labels [] when they are not
\* supplied and with the supplied values otherwise.
Thm_C8 ==
  \A t \in Tasks :
    (/\ Invoked(t)
     /\ frames[t].action = "create_issue"
     /\ ~MissingRequired("create_issue", frames[t].params)) =>
      LET p == frames[t].params IN
      frames[t].calls =
        <<[method |-> "create_issue",
           args   |-> <<p["owner"], p["repo"], p["title"],
                        IF "body" \in DOMAIN p THEN p["body"] ELSE PyStr(""),
                        IF "labels" \in DOMAIN p THEN p["labels"] ELSE PyList(<<>>)>>]>>

Wit_C8 ==
  \E t \in Tasks :
    /\ Finished(t)
    /\ frames[t].action = "create_issue"
    /\ DOMAIN frames[t].params = {"owner", "repo", "title"}
    /\ Len(frames[t].calls) = 1
    /\ frames[t].calls[1].args[4] = PyStr("")
    /\ frames[t].calls[1].args[5] = PyList(<<>>)

\* The endpoint an invocation's own parameters call for.
OwnUrl(f) ==
  "https://api.github.com/repos/" \o f.params["owner"].str \o "/" \o f.params["repo"].str
    \o (IF f.action = "list_issues" THEN "/issues" ELSE "")

\* The number carried by the data of a success result.
ResultTag(f) ==
  IF f.action = "get_repository"
    THEN f.ret.val.result.dict["repository"].dict["id"].int
    ELSE f.ret.val.result.dict["issues"].list[1].dict["number"].int

\* C9: with invocations in flight together and answers arriving in any
\* order, each invocation ends with the result built from the answer to its
\* own call and from its own parameters (a success result carries its own
\* call's number, a failure its own call's cause, the request its own owner
\* and repo), and the client's token, base URL and headers are never
\* written once the client is constructed.
Thm_C9 ==
  /\ [](\A t \in Tasks :
          /\ (Invoked(t) /\ frames[t].sent # <<>>) =>
               frames[t].sent[1].url = OwnUrl(frames[t])
          /\ Answered(t) =>
               /\ frames[t].up.from = t
               /\ frames[t].ret = Handler(frames[t].action, frames[t].params,
                                          ClientOutcomeOf(frames[t])).ret
               /\ IsSuccess(frames[t].ret.val) => ResultTag(frames[t]) = t
               /\ (clientKind = "StandIn" /\ IsError(frames[t].ret.val)) =>
                    frames[t].ret.val.error =
                      "Failed to " \o Phrase(frames[t].action) \o ": boom " \o ToString(t))
  /\ [][mainPc # "main" => cfg' = cfg]_vars
  /\ [](clientKind = "GitHubClient" => cfg = GitHubClient_init(token))

\* Two invocations suspended together, then one finished with its own data
\* while the other is still waiting.
Wit_C9 ==
  \E t, u \in Tasks :
    /\ t # u
    /\ Answered(t)
    /\ IsSuccess(frames[t].ret.val)
    /\ ResultTag(frames[t]) = t
    /\ frames[u].pc = "awaiting"
    /\ frames[u].action = frames[t].action
    /\ t > u

\* The method names whose upper-case form is GET, POST, PUT or DELETE.
SupportedSpellings ==
  {"GET", "get", "POST", "Post", "PUT", "put", "DELETE", "delete"}

\* C10: a _make_request call with an unsupported method has raised the
\* illegal-argument error with no HTTP request sent; a call with a supported
\* method sends exactly one request; on a response, a non-2xx status raises
\* the status failure without parsing, 204 returns the empty record without
\* parsing, and any other 2xx status yields response.json() of the body.
Thm_C10 ==
  \A t \in Tasks :
    (Invoked(t) /\ frames[t].action = "_make_request") =>
      LET f == frames[t]
          method == f.params["method"].str
      IN /\ method \notin SupportedSpellings =>
              /\ Finished(t)
              /\ f.sent = <<>>
              /\ f.ret = Raise("ValueError", "Unsupported HTTP method: " \o method)
         /\ method \in SupportedSpellings =>
              /\ Len(f.sent) = 1
              /\ f.sent[1].verb \in {"GET", "POST", "PUT", "DELETE"}
         /\ (Finished(t) /\ method \in SupportedSpellings /\ f.up.out.ok) =>
              LET status == f.up.out.val.status
                  body   == f.up.out.val.body
              IN /\ (status < 200 \/ status > 299) =>
                      /\ ~f.ret.ok
                      /\ f.ret.cls = "HTTPStatusError"
                      /\ ~f.parsed
                 /\ status = 204 => (f.ret = Return(EmptyDict) /\ ~f.parsed)
                 /\ (200 <= status /\ status <= 299 /\ status # 204) =>
                      /\ f.parsed
                      /\ f.ret = json(body)
                      /\ body \in JsonDecodable => f.ret.ok

Wit_C10 ==
  \E t \in Tasks :
    /\ Finished(t)
    /\ frames[t].action = "_make_request"
    /\ frames[t].params["method"].str = "delete"
    /\ frames[t].up.out = HttpResponse(204, "<html>")
    /\ frames[t].ret = Return(EmptyDict)
    /\ Len(frames[t].sent) = 1

\* The actions whose client method the shipped GitHubClient does not define.
UnbackedActions == {"list_pull_requests", "get_user_profile", "list_repos_for_user"}

ShippedInvocation(t) ==
  /\ clientKind = "GitHubClient"
  /\ Invoked(t)
  /\ frames[t].action \in UnbackedActions

\* With the shipped GitHubClient, list_pull_requests, get_user_profile and
\* list_repos_for_user end at once in an error result, never suspend and
\* never send an HTTP request (the part of C11 that does not depend on
\* which error is returned).
NoSuccess_C11 ==
  \A t \in Tasks :
    ShippedInvocation(t) =>
      /\ Finished(t)
      /\ frames[t].ret.ok
      /\ IsError(frames[t].ret.val)
      /\ frames[t].sent = <<>>
      /\ \A c \in inflight : c.task # t

\* C11: with the shipped GitHubClient, list_pull_requests, get_user_profile
\* and list_repos_for_user never return a success result and never send an
\* HTTP request; the error is the validation error when a required
\* parameter is missing and the "Failed to ..." error naming the missing
\* client method otherwise.
Cex_C11 ==
  \A t \in Tasks :
    ShippedInvocation(t) =>
      LET f == frames[t] IN
      /\ Finished(t)
      /\ f.ret.ok
      /\ IsError(f.ret.val)
      /\ f.sent = <<>>
      /\ \A c \in inflight : c.task # t
      /\ MissingRequired(f.action, f.params) =>
           f.ret.val.error = ValidationError(f.action)
      /\ ~MissingRequired(f.action, f.params) =>
           \E cause \in {"'GitHubClient' object has no attribute 'get_pull_requests'",
                         "'GitHubClient' object has no attribute 'get_user'",
                         "'GitHubClient' object has no attribute 'get_user_repos'",
                         "invalid literal for int() with base 10: 'abc'",
                         "int() argument must be a string, a bytes-like object or a real number, not 'NoneType'"} :
             f.ret.val.error = "Failed to " \o Phrase(f.action) \o ": " \o cause

\* The other four actions reach a success result with the shipped client.
BackedSuccess(a) ==
  \E t \in Tasks :
    /\ clientKind = "GitHubClient"
    /\ Finished(t)
    /\ frames[t].action = a
    /\ frames[t].ret.ok
    /\ IsSuccess(frames[t].ret.val)

====
